---- MODULE Spec2Model ----
(***************************************************************************)
(* Model of the user-preferences service: the request handlers             *)
(* (PreferencesHandler), the DynamoDB-backed store (DynamoStore) and the   *)
(* single-record operations of the backend table the store calls.          *)
(***************************************************************************)
EXTENDS Integers, Sequences, FiniteSets, TLC

VARIABLES table, clock, reqs, written, cfg, history, mock

vars == <<table, clock, reqs, written, cfg, history, mock>>

(***************************************************************************)
(* Finite input domains.                                                   *)
(***************************************************************************)
Users == {"alice", "bob"}

Keys == {"theme", "lang"}

Values == {"dark", "en", "fr"}

\* The values sent for each key.
ValuesOf(k) == IF k = "theme" THEN {"dark"} ELSE {"en", "fr"}

Slots == {"r1", "r2"}

MaxTime == 1

(***************************************************************************)
(* Go values: a map is nil or a mapping; an error is nil or a message.     *)
(***************************************************************************)
EmptyFcn == [k \in {} |-> ""]

NilMap == [isNil |-> TRUE, m |-> EmptyFcn]

MkMap(f) == [isNil |-> FALSE, m |-> f]

len(gm) == Cardinality(DOMAIN gm.m)

ErrNil == "nil"

PrefMaps ==
    UNION {{f \in [d -> Values] : \A k \in d : f[k] \in ValuesOf(k)} : d \in SUBSET Keys}

(***************************************************************************)
(* DynamoDB attribute values: S (string) and M (map of attribute values).  *)
(***************************************************************************)
AttributeValueMemberS(v) == [t |-> "S", v |-> v]

AttributeValueMemberM(m) == [t |-> "M", v |-> m]

\* One record key for every user.
pk_Shared(userID) == "USER#"

pk(userID) == "USER#" \o userID

(***************************************************************************)
(* The backend table: a function from the partition keys of the records   *)
(* that exist to their items.  Every backend request is atomic on one      *)
(* record; unavailable = TRUE is a transient I/O failure of the request,   *)
(* which then has no effect.                                               *)
(***************************************************************************)
ErrUnavailable == "backend unavailable"

ErrValidation == "ValidationException: The document path provided in the update expression is invalid for update"

GetItem(t, key, unavailable) ==
    IF unavailable THEN [Item |-> NilMap, err |-> ErrUnavailable]
    ELSE IF key \in DOMAIN t THEN [Item |-> MkMap(t[key]), err |-> ErrNil]
    ELSE [Item |-> NilMap, err |-> ErrNil]

PutItem(t, item, unavailable) ==
    IF unavailable THEN [table |-> t, err |-> ErrUnavailable]
    ELSE [table |-> [k \in DOMAIN t \cup {item["PK"].v} |->
                        IF k = item["PK"].v THEN item ELSE t[k]],
          err |-> ErrNil]

\* DeleteItem conditioned on the record existing (attribute_exists(PK)).
DeleteItem_ConditionExists(t, key, unavailable) ==
    IF unavailable THEN [table |-> t, err |-> ErrUnavailable]
    ELSE IF key \notin DOMAIN t
    THEN [table |-> t, err |-> "ConditionalCheckFailedException"]
    ELSE [table |-> [k \in DOMAIN t \ {key} |-> t[k]], err |-> ErrNil]

DeleteItem(t, key, unavailable) ==
    IF unavailable THEN [table |-> t, err |-> ErrUnavailable]
    ELSE [table |-> [k \in DOMAIN t \ {key} |-> t[k]], err |-> ErrNil]

\* A document path preferences.<name> resolves only in an existing item whose
\* preferences attribute is a map.
PathResolves(t, key) ==
    /\ key \in DOMAIN t
    /\ "preferences" \in DOMAIN t[key]
    /\ t[key]["preferences"].t = "M"

\* UpdateItem with "SET preferences = :prefs, updatedAt = :now": the map is
\* replaced, not merged.
UpdateItemSet_ReplacesMap(t, key, sets, now, unavailable) ==
    IF unavailable THEN [table |-> t, Attributes |-> NilMap, err |-> ErrUnavailable]
    ELSE IF DOMAIN sets = {} \/ ~PathResolves(t, key)
    THEN [table |-> t, Attributes |-> NilMap, err |-> ErrValidation]
    ELSE LET item == [a \in DOMAIN t[key] \cup {"updatedAt"} |->
                        IF a = "preferences" THEN AttributeValueMemberM(sets)
                        ELSE IF a = "updatedAt" THEN now
                        ELSE t[key][a]]
         IN [table |-> [t EXCEPT ![key] = item],
             Attributes |-> MkMap(item), err |-> ErrNil]

\* UpdateItem with "SET preferences.#k0 = :v0, ..., updatedAt = :now" and
\* ReturnValues ALL_NEW.  sets maps the names to the values; an empty list
\* of preferences paths leaves "SET , updatedAt = :now", a syntax error.
UpdateItemSet(t, key, sets, now, unavailable) ==
    IF unavailable THEN [table |-> t, Attributes |-> NilMap, err |-> ErrUnavailable]
    ELSE IF DOMAIN sets = {} \/ ~PathResolves(t, key)
    THEN [table |-> t, Attributes |-> NilMap, err |-> ErrValidation]
    ELSE LET old == t[key]["preferences"].v
             new == [k \in DOMAIN old \cup DOMAIN sets |->
                        IF k \in DOMAIN sets THEN sets[k] ELSE old[k]]
             item == [a \in DOMAIN t[key] \cup {"updatedAt"} |->
                        IF a = "preferences" THEN AttributeValueMemberM(new)
                        ELSE IF a = "updatedAt" THEN now
                        ELSE t[key][a]]
         IN [table |-> [t EXCEPT ![key] = item],
             Attributes |-> MkMap(item), err |-> ErrNil]

\* UpdateItem with "REMOVE preferences" followed by an empty map: every key
\* of the set is removed.
UpdateItemRemove_ClearsMap(t, key, name, unavailable) ==
    IF unavailable THEN [table |-> t, err |-> ErrUnavailable]
    ELSE IF ~PathResolves(t, key) THEN [table |-> t, err |-> ErrValidation]
    ELSE [table |-> [t EXCEPT ![key]["preferences"] = AttributeValueMemberM(EmptyFcn)],
          err |-> ErrNil]

\* UpdateItem with "REMOVE preferences.#key" and no ReturnValues.
UpdateItemRemove(t, key, name, unavailable) ==
    IF unavailable THEN [table |-> t, err |-> ErrUnavailable]
    ELSE IF ~PathResolves(t, key) THEN [table |-> t, err |-> ErrValidation]
    ELSE LET old == t[key]["preferences"].v
             new == [k \in DOMAIN old \ {name} |-> old[k]]
         IN [table |-> [t EXCEPT ![key]["preferences"] = AttributeValueMemberM(new)],
             err |-> ErrNil]

(***************************************************************************)
(* DynamoStore.                                                            *)
(***************************************************************************)
\* unmarshalPrefs returning nil for an empty preferences map.
unmarshalPrefs_EmptyAsNil(item) ==
    IF "preferences" \notin DOMAIN item.m THEN [prefs |-> NilMap, err |-> ErrNil]
    ELSE LET prefsAttr == item.m["preferences"] IN
         IF prefsAttr.t # "M"
         THEN [prefs |-> NilMap, err |-> "preferences attribute is not a map"]
         ELSE IF DOMAIN prefsAttr.v = {} THEN [prefs |-> NilMap, err |-> ErrNil]
         ELSE LET strs == {k \in DOMAIN prefsAttr.v : prefsAttr.v[k].t = "S"}
              IN [prefs |-> MkMap([k \in strs |-> prefsAttr.v[k].v]), err |-> ErrNil]

unmarshalPrefs(item) ==
    IF "preferences" \notin DOMAIN item.m THEN [prefs |-> NilMap, err |-> ErrNil]
    ELSE LET prefsAttr == item.m["preferences"] IN
         IF prefsAttr.t # "M"
         THEN [prefs |-> NilMap, err |-> "preferences attribute is not a map"]
         ELSE LET strs == {k \in DOMAIN prefsAttr.v : prefsAttr.v[k].t = "S"}
              IN [prefs |-> MkMap([k \in strs |-> prefsAttr.v[k].v]), err |-> ErrNil]

DynamoStore_GetAll(t, userID, unavailable) ==
    LET out == GetItem(t, pk(userID), unavailable) IN
    IF out.err # ErrNil THEN [prefs |-> NilMap, err |-> "GetItem: " \o out.err]
    ELSE IF out.Item.isNil THEN [prefs |-> NilMap, err |-> ErrNil]
    ELSE unmarshalPrefs(out.Item)

\* Get reporting found for every key once the user's set exists.
DynamoStore_Get_FoundWhenSetExists(t, userID, key, unavailable) ==
    LET r == DynamoStore_GetAll(t, userID, unavailable) IN
    IF r.err # ErrNil THEN [val |-> "", found |-> FALSE, err |-> r.err]
    ELSE IF key \in DOMAIN r.prefs.m
    THEN [val |-> r.prefs.m[key], found |-> TRUE, err |-> ErrNil]
    ELSE [val |-> "", found |-> ~r.prefs.isNil, err |-> ErrNil]

DynamoStore_Get(t, userID, key, unavailable) ==
    LET r == DynamoStore_GetAll(t, userID, unavailable) IN
    IF r.err # ErrNil THEN [val |-> "", found |-> FALSE, err |-> r.err]
    ELSE IF key \in DOMAIN r.prefs.m
    THEN [val |-> r.prefs.m[key], found |-> TRUE, err |-> ErrNil]
    ELSE [val |-> "", found |-> FALSE, err |-> ErrNil]

\* ReplaceAll that keeps the keys of the stored set the new mapping lacks.
DynamoStore_ReplaceAll_KeepsOldKeys(t, userID, prefs, now, unavailable) ==
    LET old == IF PathResolves(t, pk(userID)) THEN t[pk(userID)]["preferences"].v
               ELSE EmptyFcn
        prefsMap == [k \in DOMAIN old \cup DOMAIN prefs.m |->
                        IF k \in DOMAIN prefs.m THEN AttributeValueMemberS(prefs.m[k])
                        ELSE old[k]]
        item == [a \in {"PK", "preferences", "updatedAt", "createdAt"} |->
                    CASE a = "PK" -> AttributeValueMemberS(pk(userID))
                      [] a = "preferences" -> AttributeValueMemberM(prefsMap)
                      [] a = "updatedAt" -> AttributeValueMemberS(now)
                      [] a = "createdAt" -> AttributeValueMemberS(now)]
        out == PutItem(t, item, unavailable)
    IN IF out.err # ErrNil THEN [table |-> out.table, err |-> "PutItem: " \o out.err]
       ELSE [table |-> out.table, err |-> ErrNil]

DynamoStore_ReplaceAll(t, userID, prefs, now, unavailable) ==
    LET prefsMap == [k \in DOMAIN prefs.m |-> AttributeValueMemberS(prefs.m[k])]
        item == [a \in {"PK", "preferences", "updatedAt", "createdAt"} |->
                    CASE a = "PK" -> AttributeValueMemberS(pk(userID))
                      [] a = "preferences" -> AttributeValueMemberM(prefsMap)
                      [] a = "updatedAt" -> AttributeValueMemberS(now)
                      [] a = "createdAt" -> AttributeValueMemberS(now)]
        out == PutItem(t, item, unavailable)
    IN IF out.err # ErrNil THEN [table |-> out.table, err |-> "PutItem: " \o out.err]
       ELSE [table |-> out.table, err |-> ErrNil]

DynamoStore_Update(t, userID, prefs, now, unavailable) ==
    LET exprValues == [k \in DOMAIN prefs.m |-> AttributeValueMemberS(prefs.m[k])]
        out == UpdateItemSet(t, pk(userID), exprValues,
                             AttributeValueMemberS(now), unavailable)
    IN IF out.err # ErrNil
       THEN [table |-> out.table, merged |-> NilMap, err |-> "UpdateItem: " \o out.err]
       ELSE LET u == unmarshalPrefs(out.Attributes)
            IN [table |-> out.table, merged |-> u.prefs, err |-> u.err]

DynamoStore_DeleteAll(t, userID, unavailable) ==
    LET out == DeleteItem(t, pk(userID), unavailable) IN
    IF out.err # ErrNil THEN [table |-> out.table, err |-> "DeleteItem: " \o out.err]
    ELSE [table |-> out.table, err |-> ErrNil]

DynamoStore_Delete(t, userID, key, unavailable) ==
    LET out == UpdateItemRemove(t, pk(userID), key, unavailable) IN
    IF out.err # ErrNil
    THEN [table |-> out.table, err |-> "UpdateItem (REMOVE): " \o out.err]
    ELSE [table |-> out.table, err |-> ErrNil]

(***************************************************************************)
(* mockStore, the in-memory Store of the handler tests: a map from user    *)
(* ids to preference maps and an error that, when set, every method        *)
(* returns.  A lookup of a user id the map lacks yields the nil map.       *)
(***************************************************************************)
newMockStore == [prefs |-> [u \in {} |-> NilMap], err |-> ErrNil]

\* m.prefs[userID]
mockStore_prefs(m, userID) ==
    IF userID \in DOMAIN m.prefs THEN m.prefs[userID] ELSE NilMap

\* m.prefs[userID] = p
mockStore_assign(m, userID, p) ==
    [m EXCEPT !.prefs = [u \in DOMAIN m.prefs \cup {userID} |->
                            IF u = userID THEN p ELSE m.prefs[u]]]

mockStore_GetAll(m, userID) ==
    IF m.err # ErrNil THEN [prefs |-> NilMap, err |-> m.err]
    ELSE [prefs |-> mockStore_prefs(m, userID), err |-> ErrNil]

mockStore_Get(m, userID, key) ==
    LET p == mockStore_prefs(m, userID) IN
    IF m.err # ErrNil THEN [val |-> "", found |-> FALSE, err |-> m.err]
    ELSE IF p.isNil THEN [val |-> "", found |-> FALSE, err |-> ErrNil]
    ELSE IF key \in DOMAIN p.m THEN [val |-> p.m[key], found |-> TRUE, err |-> ErrNil]
    ELSE [val |-> "", found |-> FALSE, err |-> ErrNil]

mockStore_ReplaceAll(m, userID, prefs) ==
    IF m.err # ErrNil THEN [mock |-> m, err |-> m.err]
    ELSE [mock |-> mockStore_assign(m, userID, prefs), err |-> ErrNil]

mockStore_Update(m, userID, prefs) ==
    IF m.err # ErrNil THEN [mock |-> m, merged |-> NilMap, err |-> m.err]
    ELSE LET old == mockStore_prefs(m, userID).m
             existing == MkMap([k \in DOMAIN old \cup DOMAIN prefs.m |->
                                  IF k \in DOMAIN prefs.m THEN prefs.m[k] ELSE old[k]])
         IN [mock |-> mockStore_assign(m, userID, existing),
             merged |-> existing, err |-> ErrNil]

mockStore_DeleteAll(m, userID) ==
    IF m.err # ErrNil THEN [mock |-> m, err |-> m.err]
    ELSE [mock |-> [m EXCEPT !.prefs = [u \in DOMAIN m.prefs \ {userID} |-> m.prefs[u]]],
          err |-> ErrNil]

mockStore_Delete(m, userID, key) ==
    LET p == mockStore_prefs(m, userID) IN
    IF m.err # ErrNil THEN [mock |-> m, err |-> m.err]
    ELSE IF p.isNil THEN [mock |-> m, err |-> ErrNil]
    ELSE [mock |-> mockStore_assign(m, userID,
                      MkMap([k \in DOMAIN p.m \ {key} |-> p.m[k]])),
          err |-> ErrNil]

(***************************************************************************)
(* Responses (writeJSON, writeError) and the response bodies.              *)
(***************************************************************************)
writeJSON(status, v) == [status |-> status, body |-> v]

APIError(msg, status) == [error |-> msg, code |-> status]

writeError(status, msg) == writeJSON(status, APIError(msg, status))

PreferencesResponse(userID, prefs) == [userId |-> userID, preferences |-> prefs]

SinglePrefResponse(key, value) == [key |-> key, value |-> value]

NoBody == [empty |-> TRUE]

WriteHeader(status) == [status |-> status, body |-> NoBody]

(***************************************************************************)
(* Requests as the handlers see them: the route the mux matched, the path  *)
(* values, the claims attached to the context and the body.                *)
(***************************************************************************)
NoClaims == [ok |-> FALSE, Subject |-> ""]

Claims(sub) == [ok |-> TRUE, Subject |-> sub]

ClaimsFromContext(r) == r.claims

NoContent == [kind |-> "none", m |-> EmptyFcn]

BodyKinds == {"null", "notjson", "badvalue"}

Bodies == {[kind |-> "object", m |-> m] : m \in PrefMaps}
            \cup {[kind |-> k, m |-> EmptyFcn] : k \in BodyKinds}

\* The JSON value null as a member of an object.
JSONNull == "null"

\* The bodies that are no flat object of strings: JSON null, a text that is
\* not JSON, an object with a number ("badvalue") or a nested object as a
\* value, an array, a scalar, and objects with a null among their values.
MalformedBodies ==
    {[kind |-> k, m |-> EmptyFcn] :
        k \in BodyKinds \cup {"nested", "array", "scalar"}}
        \cup {[kind |-> "object", m |-> [m EXCEPT !["theme"] = JSONNull]] :
                m \in {f \in PrefMaps : "theme" \in DOMAIN f}}

\* json.NewDecoder(r.Body).Decode(&prefs) with prefs a map[string]string:
\* JSON null decodes to the nil map without error; an object decodes to the
\* mapping of its members, a string to itself and a null to the zero value
\* of the element type (the empty string), without error; anything else is
\* an error.
Decode(body) ==
    CASE body.kind = "object" ->
            [prefs |-> MkMap([k \in DOMAIN body.m |->
                                IF body.m[k] = JSONNull THEN "" ELSE body.m[k]]),
             err |-> ErrNil]
      [] body.kind = "null" -> [prefs |-> NilMap, err |-> ErrNil]
      [] OTHER -> [prefs |-> NilMap, err |-> "json: " \o body.kind]

\* What a handler returns to the model: the response written, the table
\* after its store call, the number of store operations it invoked and the
\* error it logged (ErrNil when it logged none).
Result(resp, t, calls, logged) ==
    [resp |-> resp, table |-> t, calls |-> calls, logged |-> logged]

(***************************************************************************)
(* PreferencesHandler.                                                     *)
(***************************************************************************)
\* authorize without the owner check.
authorize_NoOwnerCheck(r) ==
    LET userID == r.userId
        claims == ClaimsFromContext(r)
    IN IF userID = ""
       THEN [ok |-> FALSE, userID |-> "", resp |-> writeError(400, "missing userId")]
       ELSE IF ~claims.ok
       THEN [ok |-> FALSE, userID |-> "", resp |-> writeError(401, "missing claims")]
       ELSE [ok |-> TRUE, userID |-> userID, resp |-> NoBody]

\* authorize with the two checks merged into one forbidden answer.
authorize_MissingClaimsForbidden(r) ==
    LET userID == r.userId
        claims == ClaimsFromContext(r)
    IN IF userID = ""
       THEN [ok |-> FALSE, userID |-> "", resp |-> writeError(400, "missing userId")]
       ELSE IF ~claims.ok \/ claims.Subject # userID
       THEN [ok |-> FALSE, userID |-> "", resp |-> writeError(403, "access denied")]
       ELSE [ok |-> TRUE, userID |-> userID, resp |-> NoBody]

authorize(r) ==
    LET userID == r.userId
        claims == ClaimsFromContext(r)
    IN IF userID = ""
       THEN [ok |-> FALSE, userID |-> "", resp |-> writeError(400, "missing userId")]
       ELSE IF ~claims.ok
       THEN [ok |-> FALSE, userID |-> "", resp |-> writeError(401, "missing claims")]
       ELSE IF claims.Subject # userID
       THEN [ok |-> FALSE, userID |-> "", resp |-> writeError(403, "access denied")]
       ELSE [ok |-> TRUE, userID |-> userID, resp |-> NoBody]

\* GetAll without the nil-to-empty normalisation of the result.
PreferencesHandler_GetAll_NilPassedOn(r, t, now, unavailable) ==
    LET a == authorize(r) IN
    IF ~a.ok THEN Result(a.resp, t, 0, ErrNil)
    ELSE LET g == DynamoStore_GetAll(t, a.userID, unavailable) IN
         IF g.err # ErrNil
         THEN Result(writeError(500, "failed to retrieve preferences"), t, 1, g.err)
         ELSE Result(writeJSON(200, PreferencesResponse(a.userID, g.prefs)), t, 1, ErrNil)

PreferencesHandler_GetAll(r, t, now, unavailable) ==
    LET a == authorize(r) IN
    IF ~a.ok THEN Result(a.resp, t, 0, ErrNil)
    ELSE LET g == DynamoStore_GetAll(t, a.userID, unavailable) IN
         IF g.err # ErrNil
         THEN Result(writeError(500, "failed to retrieve preferences"), t, 1, g.err)
         ELSE LET prefs == IF g.prefs.isNil THEN MkMap(EmptyFcn) ELSE g.prefs
              IN Result(writeJSON(200, PreferencesResponse(a.userID, prefs)), t, 1, ErrNil)

\* GetOne answering a store failure with the text of the error.
PreferencesHandler_GetOne_LeaksError(r, t, now, unavailable) ==
    LET a == authorize(r) IN
    IF ~a.ok THEN Result(a.resp, t, 0, ErrNil)
    ELSE IF r.key = "" THEN Result(writeError(400, "missing key"), t, 0, ErrNil)
    ELSE LET g == DynamoStore_Get(t, a.userID, r.key, unavailable) IN
         IF g.err # ErrNil
         THEN Result(writeError(500, g.err), t, 1, g.err)
         ELSE IF ~g.found
         THEN Result(writeError(404, "preference not found"), t, 1, ErrNil)
         ELSE Result(writeJSON(200, SinglePrefResponse(r.key, g.val)), t, 1, ErrNil)

PreferencesHandler_GetOne(r, t, now, unavailable) ==
    LET a == authorize(r) IN
    IF ~a.ok THEN Result(a.resp, t, 0, ErrNil)
    ELSE IF r.key = "" THEN Result(writeError(400, "missing key"), t, 0, ErrNil)
    ELSE LET g == DynamoStore_Get(t, a.userID, r.key, unavailable) IN
         IF g.err # ErrNil
         THEN Result(writeError(500, "failed to retrieve preference"), t, 1, g.err)
         ELSE IF ~g.found
         THEN Result(writeError(404, "preference not found"), t, 1, ErrNil)
         ELSE Result(writeJSON(200, SinglePrefResponse(r.key, g.val)), t, 1, ErrNil)

PreferencesHandler_ReplaceAll(r, t, now, unavailable) ==
    LET a == authorize(r) IN
    IF ~a.ok THEN Result(a.resp, t, 0, ErrNil)
    ELSE LET d == Decode(r.body) IN
         IF d.err # ErrNil THEN Result(writeError(400, "invalid JSON body"), t, 0, ErrNil)
         ELSE LET s == DynamoStore_ReplaceAll(t, a.userID, d.prefs, now, unavailable) IN
              IF s.err # ErrNil
              THEN Result(writeError(500, "failed to save preferences"), s.table, 1, s.err)
              ELSE Result(writeJSON(200, PreferencesResponse(a.userID, d.prefs)),
                          s.table, 1, ErrNil)

\* PatchPrefs answering with the decoded body instead of the merged set.
PreferencesHandler_PatchPrefs_EchoesBody(r, t, now, unavailable) ==
    LET a == authorize(r) IN
    IF ~a.ok THEN Result(a.resp, t, 0, ErrNil)
    ELSE LET d == Decode(r.body) IN
         IF d.err # ErrNil THEN Result(writeError(400, "invalid JSON body"), t, 0, ErrNil)
         ELSE IF len(d.prefs) = 0
         THEN Result(writeError(400, "empty preferences"), t, 0, ErrNil)
         ELSE LET s == DynamoStore_Update(t, a.userID, d.prefs, now, unavailable) IN
              IF s.err # ErrNil
              THEN Result(writeError(500, "failed to update preferences"), s.table, 1, s.err)
              ELSE Result(writeJSON(200, PreferencesResponse(a.userID, d.prefs)),
                          s.table, 1, ErrNil)

PreferencesHandler_PatchPrefs(r, t, now, unavailable) ==
    LET a == authorize(r) IN
    IF ~a.ok THEN Result(a.resp, t, 0, ErrNil)
    ELSE LET d == Decode(r.body) IN
         IF d.err # ErrNil THEN Result(writeError(400, "invalid JSON body"), t, 0, ErrNil)
         ELSE IF len(d.prefs) = 0
         THEN Result(writeError(400, "empty preferences"), t, 0, ErrNil)
         ELSE LET s == DynamoStore_Update(t, a.userID, d.prefs, now, unavailable) IN
              IF s.err # ErrNil
              THEN Result(writeError(500, "failed to update preferences"), s.table, 1, s.err)
              ELSE Result(writeJSON(200, PreferencesResponse(a.userID, s.merged)),
                          s.table, 1, ErrNil)

\* DeleteAll calling the store before it authorizes the request.
PreferencesHandler_DeleteAll_AuthorizesAfter(r, t, now, unavailable) ==
    LET a == authorize(r)
        s == DynamoStore_DeleteAll(t, r.userId, unavailable)
    IN IF ~a.ok THEN Result(a.resp, s.table, 1, ErrNil)
       ELSE IF s.err # ErrNil
       THEN Result(writeError(500, "failed to delete preferences"), s.table, 1, s.err)
       ELSE Result(WriteHeader(204), s.table, 1, ErrNil)

PreferencesHandler_DeleteAll(r, t, now, unavailable) ==
    LET a == authorize(r) IN
    IF ~a.ok THEN Result(a.resp, t, 0, ErrNil)
    ELSE LET s == DynamoStore_DeleteAll(t, a.userID, unavailable) IN
         IF s.err # ErrNil
         THEN Result(writeError(500, "failed to delete preferences"), s.table, 1, s.err)
         ELSE Result(WriteHeader(204), s.table, 1, ErrNil)

\* DeleteOne sending the store operation a second time when it failed.
PreferencesHandler_DeleteOne_RetriesOnce(r, t, now, unavailable) ==
    LET a == authorize(r) IN
    IF ~a.ok THEN Result(a.resp, t, 0, ErrNil)
    ELSE IF r.key = "" THEN Result(writeError(400, "missing key"), t, 0, ErrNil)
    ELSE LET s == DynamoStore_Delete(t, a.userID, r.key, unavailable) IN
         IF s.err = ErrNil THEN Result(WriteHeader(204), s.table, 1, ErrNil)
         ELSE LET s2 == DynamoStore_Delete(s.table, a.userID, r.key, FALSE) IN
              IF s2.err # ErrNil
              THEN Result(writeError(500, "failed to delete preference"), s2.table, 2, s2.err)
              ELSE Result(WriteHeader(204), s2.table, 2, ErrNil)

PreferencesHandler_DeleteOne(r, t, now, unavailable) ==
    LET a == authorize(r) IN
    IF ~a.ok THEN Result(a.resp, t, 0, ErrNil)
    ELSE IF r.key = "" THEN Result(writeError(400, "missing key"), t, 0, ErrNil)
    ELSE LET s == DynamoStore_Delete(t, a.userID, r.key, unavailable) IN
         IF s.err # ErrNil
         THEN Result(writeError(500, "failed to delete preference"), s.table, 1, s.err)
         ELSE Result(WriteHeader(204), s.table, 1, ErrNil)

(***************************************************************************)
(* NewRouter: the registered (method, route) patterns and their handlers.  *)
(***************************************************************************)
Routes == {<<"GET", "preferences">>, <<"GET", "preferences/{key}">>,
           <<"PUT", "preferences">>, <<"POST", "preferences">>,
           <<"PATCH", "preferences">>, <<"DELETE", "preferences">>,
           <<"DELETE", "preferences/{key}">>}

NewRouter(r, t, now, unavailable) ==
    CASE <<r.method, r.route>> = <<"GET", "preferences">> ->
            PreferencesHandler_GetAll(r, t, now, unavailable)
      [] <<r.method, r.route>> = <<"GET", "preferences/{key}">> ->
            PreferencesHandler_GetOne(r, t, now, unavailable)
      [] <<r.method, r.route>> = <<"PUT", "preferences">> ->
            PreferencesHandler_ReplaceAll(r, t, now, unavailable)
      [] <<r.method, r.route>> = <<"POST", "preferences">> ->
            PreferencesHandler_ReplaceAll(r, t, now, unavailable)
      [] <<r.method, r.route>> = <<"PATCH", "preferences">> ->
            PreferencesHandler_PatchPrefs(r, t, now, unavailable)
      [] <<r.method, r.route>> = <<"DELETE", "preferences">> ->
            PreferencesHandler_DeleteAll(r, t, now, unavailable)
      [] <<r.method, r.route>> = <<"DELETE", "preferences/{key}">> ->
            PreferencesHandler_DeleteOne(r, t, now, unavailable)

Request(method, route, userId, claims, key, body) ==
    [method |-> method, route |-> route, userId |-> userId, claims |-> claims,
     key |-> key, body |-> body]

\* The requests the model sends: a key only on the key routes, a body only
\* with the methods whose handlers read one.
WellFormed(r) ==
    /\ (r.route = "preferences") = (r.key = "")
    /\ (r.method \in {"PUT", "POST", "PATCH"}) = (r.body # NoContent)

Requests ==
    {r \in {Request(p[1], p[2], u, c, k, b) :
                p \in Routes, u \in Users \cup {""},
                c \in {NoClaims} \cup {Claims(x) : x \in Users},
                k \in Keys \cup {""}, b \in Bodies \cup {NoContent}} :
        WellFormed(r)}

EmptyTable == [k \in {} |-> EmptyFcn]

(***************************************************************************)
(* Configuration (LoadConfig): the signing secret is required, the issuer  *)
(* is optional, the dev-bypass flag is off unless DEV_BYPASS_AUTH is true. *)
(* DevSubject is the synthetic identity the bypass substitutes; it is      *)
(* fixed when the process starts.                                          *)
(***************************************************************************)
Secret == "test-secret-key"

Issuers == {"", "expected-issuer"}

DevSubjects == {"alice", "dev-user"}

Config(secret, issuer, bypass, devSubject) ==
    [JWTSecret |-> secret, JWTIssuer |-> issuer, DevBypassAuth |-> bypass,
     DevSubject |-> devSubject]

Configs ==
    {Config(Secret, i, FALSE, "") : i \in Issuers}
        \cup {Config(Secret, i, TRUE, d) : i \in Issuers, d \in DevSubjects}

(***************************************************************************)
(* Bearer tokens.  A token that parses has a signing algorithm, the key    *)
(* it was signed with and the claims exp, sub and iss, each set or not.    *)
(***************************************************************************)
Unset == [set |-> FALSE, v |-> ""]

NoExp == [set |-> FALSE, v |-> 0]

Claim(v) == [set |-> TRUE, v |-> v]

Token(alg, key, exp, sub, iss) ==
    [wellFormed |-> TRUE, alg |-> alg, key |-> key, exp |-> exp, sub |-> sub,
     iss |-> iss]

\* A string that is not a JWT ("invalid-token").
MalformedToken ==
    [wellFormed |-> FALSE, alg |-> "", key |-> "", exp |-> NoExp, sub |-> Unset,
     iss |-> Unset]

\* Algorithm and signing key of the tokens sent: HS256 with the service's
\* secret or another one, another HMAC algorithm, and the unsigned "none".
Signatures ==
    {<<"HS256", Secret>>, <<"HS256", "wrong-secret">>, <<"HS384", Secret>>,
     <<"none", "">>}

Tokens ==
    {Token(sg[1], sg[2], exp, sub, iss) :
        sg \in Signatures,
        exp \in {NoExp, Claim(0), Claim(MaxTime)},
        sub \in {Unset, Claim("")} \cup {Claim(u) : u \in Users},
        iss \in {Unset, Claim("expected-issuer"), Claim("other-issuer")}}
        \cup {MalformedToken}

\* The Authorization header: absent, a scheme alone, or a scheme and
\* credentials separated by a space.
NoHeader == [parts |-> 0, scheme |-> "", token |-> MalformedToken]

Header(scheme, token) == [parts |-> 2, scheme |-> scheme, token |-> token]

GoodToken(u) == Token("HS256", Secret, NoExp, Claim(u), Claim("expected-issuer"))

Headers ==
    {NoHeader, [parts |-> 1, scheme |-> "Bearer", token |-> MalformedToken]}
        \cup {Header("Bearer", t) : t \in Tokens}
        \cup {Header(sc, GoodToken("alice")) : sc \in {"bearer", "NotBearer"}}

ToLower(str) ==
    CASE str = "Bearer" -> "bearer"
      [] str = "NotBearer" -> "notbearer"
      [] OTHER -> str

EqualFold(a, b) == ToLower(a) = ToLower(b)

\* jwt.Parse with the claims validation switched off: exp is not looked at.
jwt_Parse_IgnoresExp(token, secret, issuer, now) ==
    IF ~token.wellFormed THEN "token is malformed"
    ELSE IF token.alg # "HS256" THEN "token signature is invalid: signing method is invalid"
    ELSE IF token.key # secret THEN "token signature is invalid: signature is invalid"
    ELSE IF issuer # "" /\ (~token.iss.set \/ token.iss.v # issuer)
    THEN "token has invalid claims: token has invalid issuer"
    ELSE ErrNil

\* jwt.Parse without WithValidMethods: every HMAC method is accepted.
jwt_Parse_AnyMethod(token, secret, issuer, now) ==
    IF ~token.wellFormed THEN "token is malformed"
    ELSE IF token.alg = "none" THEN "token is unverifiable: 'none' signature type is not allowed"
    ELSE IF token.key # secret THEN "token signature is invalid: signature is invalid"
    ELSE IF token.exp.set /\ ~(now < token.exp.v)
    THEN "token has invalid claims: token is expired"
    ELSE IF issuer # "" /\ (~token.iss.set \/ token.iss.v # issuer)
    THEN "token has invalid claims: token has invalid issuer"
    ELSE ErrNil

\* jwt.Parse with WithValidMethods({"HS256"}), the key function returning
\* the secret and, when an issuer is configured, WithIssuer: the error, or
\* ErrNil for a valid token.
jwt_Parse(token, secret, issuer, now) ==
    IF ~token.wellFormed THEN "token is malformed"
    ELSE IF token.alg # "HS256" THEN "token signature is invalid: signing method is invalid"
    ELSE IF token.key # secret THEN "token signature is invalid: signature is invalid"
    ELSE IF token.exp.set /\ ~(now < token.exp.v)
    THEN "token has invalid claims: token is expired"
    ELSE IF issuer # "" /\ (~token.iss.set \/ token.iss.v # issuer)
    THEN "token has invalid claims: token has invalid issuer"
    ELSE ErrNil

\* token.Claims.GetSubject(): the empty string when the claim is not set.
GetSubject(token) == IF token.sub.set THEN token.sub.v ELSE ""

\* What a middleware hands on: whether it calls the wrapped handler, the
\* claims it attached to the request context, and the response it wrote
\* when it did not call the handler.
Reject(status, msg) == [pass |-> FALSE, claims |-> NoClaims, resp |-> writeError(status, msg)]

Pass(claims) == [pass |-> TRUE, claims |-> claims, resp |-> NoBody]

\* JWTAuth attaching the path userId once a token has been accepted.
JWTAuth_SubjectFromPath(secret, issuer, r, now) ==
    IF r.route = "healthz" THEN Pass(NoClaims)
    ELSE IF r.header.parts = 0
    THEN Reject(401, "missing authorization header")
    ELSE IF r.header.parts # 2 \/ ~EqualFold(r.header.scheme, "Bearer")
    THEN Reject(401, "invalid authorization header format")
    ELSE IF jwt_Parse(r.header.token, secret, issuer, now) # ErrNil
    THEN Reject(401, "invalid or expired token")
    ELSE LET sub == GetSubject(r.header.token) IN
         IF sub = "" THEN Reject(401, "token missing subject claim")
         ELSE Pass(Claims(r.userId))

JWTAuth(secret, issuer, r, now) ==
    IF r.route = "healthz" THEN Pass(NoClaims)
    ELSE IF r.header.parts = 0
    THEN Reject(401, "missing authorization header")
    ELSE IF r.header.parts # 2 \/ ~EqualFold(r.header.scheme, "Bearer")
    THEN Reject(401, "invalid authorization header format")
    ELSE IF jwt_Parse(r.header.token, secret, issuer, now) # ErrNil
    THEN Reject(401, "invalid or expired token")
    ELSE LET sub == GetSubject(r.header.token) IN
         IF sub = "" THEN Reject(401, "token missing subject claim")
         ELSE Pass(Claims(sub))

\* The bypass attaching the path userId as subject.
auth_SubjectFromPath(c, r, now) ==
    IF c.DevBypassAuth THEN Pass(Claims(r.userId))
    ELSE JWTAuth(c.JWTSecret, c.JWTIssuer, r, now)

\* JWTAuth(secret, issuer, bypass): with the bypass on, the synthetic
\* identity is attached and nothing of the request is looked at.
auth(c, r, now) ==
    IF c.DevBypassAuth THEN Pass(Claims(c.DevSubject))
    ELSE JWTAuth(c.JWTSecret, c.JWTIssuer, r, now)

(***************************************************************************)
(* The handler NewRouter returns: Recovery, CORS and RequestLogging around *)
(* the mux, whose preferences routes are each wrapped in auth.  Recovery   *)
(* and RequestLogging pass every request and response on unchanged (no     *)
(* handler panics).  The result is the request as it left the chain (with  *)
(* the claims attached, the time the token was validated at and whether a  *)
(* preferences handler was called) and what the handler did.               *)
(***************************************************************************)
HTTPMethods == {"GET", "PUT", "POST", "PATCH", "DELETE", "OPTIONS"}

HTTPRoutes == {"healthz", "preferences", "preferences/{key}", "other"}

TextBody(text) == [text |-> text]

Untouched(r, resp, t) ==
    [req |-> r, res |-> Result(resp, t, 0, ErrNil)]

ServeMux(c, r, t, now, unavailable) ==
    IF r.route = "healthz"
    THEN IF r.method = "GET"
         THEN Untouched(r, writeJSON(200, [status |-> "ok"]), t)
         ELSE Untouched(r, writeJSON(405, TextBody("Method Not Allowed")), t)
    ELSE IF r.route \notin {"preferences", "preferences/{key}"}
    THEN Untouched(r, writeJSON(404, TextBody("404 page not found")), t)
    ELSE IF <<r.method, r.route>> \notin Routes
    THEN Untouched(r, writeJSON(405, TextBody("Method Not Allowed")), t)
    ELSE LET a == auth(c, r, now) IN
         IF ~a.pass THEN Untouched(r, a.resp, t)
         ELSE LET h == [r EXCEPT !.claims = a.claims, !.handled = TRUE]
              IN [req |-> h, res |-> NewRouter(h, t, now, unavailable)]

CORS(c, r, t, now, unavailable) ==
    IF r.method = "OPTIONS" THEN Untouched(r, WriteHeader(204), t)
    ELSE ServeMux(c, r, t, now, unavailable)

ServeHTTP(c, r, t, now, unavailable) ==
    CORS(c, [r EXCEPT !.at = now], t, now, unavailable)

HTTPRequest(method, route, userId, key, header, body) ==
    [method |-> method, route |-> route, userId |-> userId, claims |-> NoClaims,
     key |-> key, body |-> body, header |-> header, at |-> 0, handled |-> FALSE]

\* The bodies sent over HTTP: a one-key object, JSON null and a non-JSON text.
HTTPBodies ==
    {b \in Bodies : b.kind \in {"null", "notjson"}
                      \/ (b.kind = "object" /\ DOMAIN b.m = {"lang"} /\ b.m["lang"] = "fr")}

\* The path values the mux extracts on each route.
PathValues(route) ==
    CASE route = "preferences" -> {<<u, "">> : u \in Users}
      [] route = "preferences/{key}" -> Users \X Keys
      [] OTHER -> {<<"", "">>}

\* The paths requested: each route with the path values the mux extracts.
Paths ==
    UNION {{<<rt, pv[1], pv[2]>> : pv \in PathValues(rt)} : rt \in HTTPRoutes}

\* The requests sent: a body with the methods whose handlers read one.
HTTPRequests ==
    {r \in {HTTPRequest(m, p[1], p[2], p[3], h, b) :
                m \in HTTPMethods, p \in Paths, h \in Headers,
                b \in HTTPBodies \cup {NoContent}} :
        (r.method \in {"PUT", "POST", "PATCH"}) = (r.body # NoContent)}


(***************************************************************************)
(* The state machine.  A request slot is idle, pending (its handler has    *)
(* authorized and validated the request, the store operation has read the  *)
(* clock and the backend request is in flight) or done (the response is    *)
(* written).  The backend applies each request atomically.                 *)
(*                                                                         *)
(* History kept for the properties: a done slot remembers the preference   *)
(* set the table held for the request's user just before the backend       *)
(* request was applied (before), written is the set of users for whom a    *)
(* ReplaceAll or Update has been issued to the backend, and history is the *)
(* sequence of the exchanges a client has completed (recorded for the      *)
(* client of the scenario below).                                          *)
(***************************************************************************)
\* The preference set the table holds for a user, read off the record.
Stored(t, u) ==
    IF PathResolves(t, pk(u))
    THEN MkMap([k \in DOMAIN t[pk(u)]["preferences"].v |->
                    t[pk(u)]["preferences"].v[k].v])
    ELSE NilMap

\* The store operations that read the clock before their backend request.
ReadsClock(r) == r.method \in {"PUT", "POST", "PATCH"}

Idle == [pc |-> "idle"]

Pending(r, now) == [pc |-> "pending", req |-> r, now |-> now]

Done(r, res, before) ==
    [pc |-> "done", req |-> r, resp |-> res.resp, calls |-> res.calls,
     logged |-> res.logged, before |-> before]

Init ==
    /\ table = EmptyTable
    /\ clock = 0
    /\ reqs = [s \in Slots |-> Idle]
    /\ written = {}
    /\ cfg = Config(Secret, "", FALSE, "")
    /\ history = <<>>
    /\ mock = newMockStore

\* A request of the set rs arrives.  The handler runs up to its store call;
\* a request it rejects before that is answered at once.
Begin(s, rs) ==
    /\ reqs[s].pc = "idle"
    /\ \E r \in rs :
        LET res == NewRouter(r, table, clock, FALSE) IN
        reqs' = [reqs EXCEPT ![s] =
                    IF res.calls = 0 THEN Done(r, res, Stored(table, r.userId))
                    ELSE Pending(r, IF ReadsClock(r) THEN clock ELSE 0)]
    /\ UNCHANGED <<table, clock, written, cfg, history, mock>>

\* A table holding for user u the preference set S and nothing else: no
\* record when S is absent, else the record a ReplaceAll leaves.
TableOf(u, S) ==
    IF S.isNil THEN EmptyTable
    ELSE DynamoStore_ReplaceAll(EmptyTable, u, S, 0, FALSE).table

\* The store operation working on what the table held before a concurrent
\* request was applied, and writing its result over that request's.
Backend_LostUpdate(s) ==
    /\ reqs[s].pc = "pending"
    /\ \E unavailable \in BOOLEAN :
        LET r == reqs[s].req
            stale == IF \E o \in Slots \ {s} : reqs[o].pc = "done"
                     THEN TableOf(r.userId,
                                  reqs[CHOOSE o \in Slots \ {s} : reqs[o].pc = "done"].before)
                     ELSE table
            res == NewRouter(r, stale, reqs[s].now, unavailable)
        IN /\ table' = res.table
           /\ reqs' = [reqs EXCEPT ![s] = Done(r, res, Stored(stale, r.userId))]
           /\ written' = IF ReadsClock(r) THEN written \cup {r.userId} ELSE written
    /\ UNCHANGED <<clock, cfg, history, mock>>

\* The backend request is applied (or fails) and the handler responds.
Backend(s) ==
    /\ reqs[s].pc = "pending"
    /\ \E unavailable \in BOOLEAN :
        LET r == reqs[s].req
            res == NewRouter(r, table, reqs[s].now, unavailable)
        IN /\ table' = res.table
           /\ reqs' = [reqs EXCEPT ![s] = Done(r, res, Stored(table, r.userId))]
           /\ written' = IF ReadsClock(r) THEN written \cup {r.userId} ELSE written
    /\ UNCHANGED <<clock, cfg, history, mock>>

\* The response is delivered and the slot is free for the next request.
Deliver(s) ==
    /\ reqs[s].pc = "done"
    /\ reqs' = [reqs EXCEPT ![s] = Idle]
    /\ UNCHANGED <<table, clock, written, cfg, history, mock>>

\* Time passes; the clock is read in whole seconds (time.RFC3339).
Tick ==
    /\ clock < MaxTime
    /\ clock' = clock + 1
    /\ UNCHANGED <<table, reqs, written, cfg, history, mock>>

\* Requests served one at a time.
Next ==
    \/ Begin("r1", Requests)
    \/ Backend("r1")
    \/ Deliver("r1")
    \/ Tick

Spec == Init /\ [][Next]_vars

(***************************************************************************)
(* Concurrent requests: every slot carries one request of alice for her    *)
(* own preferences that reaches the store, and the backend requests are    *)
(* applied in any order.  The table starts with alice's record absent or   *)
(* as a ReplaceAll left it.                                                *)
(***************************************************************************)
ConcRequests ==
    {r \in Requests :
        /\ r.userId = "alice"
        /\ r.claims = Claims("alice")
        /\ NewRouter(r, EmptyTable, 0, FALSE).calls = 1}

ConcTables ==
    {EmptyTable} \cup
    {DynamoStore_ReplaceAll(EmptyTable, "alice", MkMap(m), 0, FALSE).table : m \in PrefMaps}

InitConc ==
    /\ table \in ConcTables
    /\ clock = 0
    /\ reqs = [s \in Slots |-> Idle]
    /\ written = {u \in Users : pk(u) \in DOMAIN table}
    /\ cfg = Config(Secret, "", FALSE, "")
    /\ history = <<>>
    /\ mock = newMockStore

NextConc ==
    \/ \E s \in Slots : Begin(s, ConcRequests)
    \/ \E s \in Slots : Backend(s)

SpecConc == InitConc /\ [][NextConc]_vars


(***************************************************************************)
(* Requests through the whole handler chain: the process starts with any   *)
(* configuration on a table that is empty or holds the record a ReplaceAll *)
(* left for alice, and serves one request.                                 *)
(***************************************************************************)
HTTPTables ==
    {EmptyTable} \cup
    {DynamoStore_ReplaceAll(EmptyTable, "alice", MkMap(m), 0, FALSE).table :
        m \in {f \in PrefMaps : DOMAIN f = Keys /\ f["lang"] = "en"}}

\* A request arrives at the chain: the middleware and the handler run up to
\* the store call.
BeginHTTP(s, rs) ==
    /\ reqs[s].pc = "idle"
    /\ \E r \in rs :
        LET out == ServeHTTP(cfg, r, table, clock, FALSE) IN
        reqs' = [reqs EXCEPT ![s] =
                    IF out.res.calls = 0
                    THEN Done(out.req, out.res, Stored(table, r.userId))
                    ELSE Pending(out.req, IF ReadsClock(r) THEN clock ELSE 0)]
    /\ UNCHANGED <<table, clock, written, cfg, history, mock>>

InitHTTP ==
    /\ table \in HTTPTables
    /\ clock = 0
    /\ reqs = [s \in Slots |-> Idle]
    /\ written = {u \in Users : pk(u) \in DOMAIN table}
    /\ cfg \in Configs
    /\ history = <<>>
    /\ mock = newMockStore

NextHTTP ==
    \/ BeginHTTP("r1", HTTPRequests)
    \/ Backend("r1")
    \/ Tick

SpecHTTP == InitHTTP /\ [][NextHTTP]_vars


(***************************************************************************)
(* A client session: alice, who has no stored preferences, sends four      *)
(* requests one after the other with her token, each after the response to *)
(* the one before, while requests with bob's token arrive at any time.     *)
(***************************************************************************)
AliceHeader == Header("Bearer", GoodToken("alice"))

Object(m) == [kind |-> "object", m |-> m]

Scenario ==
    <<HTTPRequest("PUT", "preferences", "alice", "", AliceHeader,
                  Object([k \in Keys |-> IF k = "theme" THEN "dark" ELSE "en"])),
      HTTPRequest("PATCH", "preferences", "alice", "", AliceHeader,
                  Object([k \in {"lang"} |-> "fr"])),
      HTTPRequest("DELETE", "preferences/{key}", "alice", "theme", AliceHeader,
                  NoContent),
      HTTPRequest("GET", "preferences", "alice", "", AliceHeader, NoContent)>>

\* bob replaces and deletes sets, his own and (in vain) alice's.
BobRequests ==
    {r \in HTTPRequests :
        /\ r.header = Header("Bearer", GoodToken("bob"))
        /\ r.route = "preferences"
        /\ r.method \in {"PUT", "DELETE"}}

\* The client sends the next request of its session.
BeginNext(s) ==
    /\ Len(history) < Len(Scenario)
    /\ BeginHTTP(s, {Scenario[Len(history) + 1]})

\* The client receives the response.
DeliverLogged(s) ==
    /\ reqs[s].pc = "done"
    /\ history' = Append(history, [req |-> reqs[s].req, resp |-> reqs[s].resp,
                                   logged |-> reqs[s].logged])
    /\ reqs' = [reqs EXCEPT ![s] = Idle]
    /\ UNCHANGED <<table, clock, written, cfg, mock>>

InitScenario ==
    /\ table = EmptyTable
    /\ clock = 0
    /\ reqs = [s \in Slots |-> Idle]
    /\ written = {}
    /\ cfg \in {c \in Configs : ~c.DevBypassAuth}
    /\ history = <<>>
    /\ mock = newMockStore

NextScenario ==
    \/ BeginNext("r1")
    \/ Backend("r1")
    \/ DeliverLogged("r1")
    \/ BeginHTTP("r2", BobRequests)
    \/ Backend("r2")
    \/ Deliver("r2")
    \/ Tick

SpecScenario == InitScenario /\ [][NextScenario]_vars


(***************************************************************************)
(* Write requests of alice for her own preferences, with well-formed and   *)
(* malformed bodies, served one at a time.                                 *)
(***************************************************************************)
WriteRequests ==
    {Request(m, "preferences", "alice", Claims("alice"), "", b) :
        m \in {"PUT", "POST", "PATCH"}, b \in Bodies \cup MalformedBodies}

NextWrites ==
    \/ Begin("r1", WriteRequests)
    \/ Backend("r1")
    \/ Deliver("r1")
    \/ Tick

SpecWrites == InitConc /\ [][NextWrites]_vars

(***************************************************************************)
(* Properties.                                                             *)
(***************************************************************************)
IsDone(s) == reqs[s].pc = "done"

Handled(s, method, route) ==
    /\ IsDone(s)
    /\ reqs[s].req.method = method
    /\ reqs[s].req.route = route

\* The handler logged a transient backend failure for the request.
BackendDown(s) ==
    reqs[s].logged \in {op \o ": " \o ErrUnavailable :
                          op \in {"GetItem", "PutItem", "UpdateItem", "DeleteItem",
                                  "UpdateItem (REMOVE)"}}

\* The request carries a verified subject that is not the path user.
Mismatch(r) == r.claims.ok /\ r.userId # "" /\ r.claims.Subject # r.userId

\* C1: on every preferences route, whatever the table holds, a request whose
\* verified subject differs from the path userId is answered 403 at once,
\* without a store operation (it never waits on the backend).
C1_MismatchForbidden ==
    \A s \in Slots :
        (reqs[s].pc # "idle" /\ Mismatch(reqs[s].req)) =>
            /\ IsDone(s)
            /\ reqs[s].resp = writeError(403, "access denied")
            /\ reqs[s].calls = 0

\* A mismatched PATCH aimed at a user whose record exists was answered 403.
C1_Witness ==
    \E s \in Slots :
        /\ Handled(s, "PATCH", "preferences")
        /\ Mismatch(reqs[s].req)
        /\ reqs[s].req.body.kind = "object"
        /\ pk(reqs[s].req.userId) \in DOMAIN table
        /\ reqs[s].resp.status = 403

\* A PATCH that reached the store while the backend was available.
PatchServed(s) ==
    /\ Handled(s, "PATCH", "preferences")
    /\ reqs[s].calls = 1
    /\ ~BackendDown(s)

\* The stored set of the request's user holds every key of the request's
\* body with the body's value.
BodyStored(s) ==
    LET st == Stored(table, reqs[s].req.userId)
        body == reqs[s].req.body.m
    IN \A k \in DOMAIN body : k \in DOMAIN st.m /\ st.m[k] = body[k]

\* C2: two concurrent merges for the same user with disjoint key sets both
\* succeed and both survive in the final set, whether the user's set existed
\* or was absent when they started.
C2_ConcurrentUpdatesSurvive ==
    \A s1, s2 \in Slots :
        (/\ s1 # s2
         /\ PatchServed(s1) /\ PatchServed(s2)
         /\ reqs[s1].req.userId = reqs[s2].req.userId
         /\ DOMAIN reqs[s1].req.body.m \cap DOMAIN reqs[s2].req.body.m = {})
        => /\ reqs[s1].resp.status = 200 /\ reqs[s2].resp.status = 200
           /\ BodyStored(s1) /\ BodyStored(s2)

\* The part of C2 the code keeps: when the user's record exists as both
\* merges are applied, both succeed and both survive.
C2_OnExistingSet ==
    \A s1, s2 \in Slots :
        (/\ s1 # s2
         /\ PatchServed(s1) /\ PatchServed(s2)
         /\ ~reqs[s1].before.isNil /\ ~reqs[s2].before.isNil
         /\ reqs[s1].req.userId = reqs[s2].req.userId
         /\ DOMAIN reqs[s1].req.body.m \cap DOMAIN reqs[s2].req.body.m = {})
        => /\ reqs[s1].resp.status = 200 /\ reqs[s2].resp.status = 200
           /\ BodyStored(s1) /\ BodyStored(s2)

\* Two concurrent merges with disjoint keys were both served on an absent set.
C2_Witness ==
    /\ PatchServed("r1") /\ PatchServed("r2")
    /\ reqs["r1"].before.isNil /\ reqs["r2"].before.isNil
    /\ DOMAIN reqs["r1"].req.body.m \cap DOMAIN reqs["r2"].req.body.m = {}

\* C3: a merge with a non-empty body for a user whose set is absent succeeds
\* and creates the set: PATCH answers 200 with preferences equal to the
\* body, and GetAll then yields exactly the body.
C3_UpdateCreatesAbsentSet ==
    \A s \in Slots :
        (PatchServed(s) /\ reqs[s].before.isNil) =>
            LET u == reqs[s].req.userId
                P == MkMap(reqs[s].req.body.m)
            IN /\ reqs[s].resp = writeJSON(200, PreferencesResponse(u, P))
               /\ DynamoStore_GetAll(table, u, FALSE) = [prefs |-> P, err |-> ErrNil]

\* A merge was served for a user whose set was absent.
C3_Witness ==
    \E s \in Slots : PatchServed(s) /\ reqs[s].before.isNil

\* A request on the given route that reached the store while the backend
\* was available.
Served(s, method, route) ==
    /\ Handled(s, method, route)
    /\ reqs[s].calls = 1
    /\ ~BackendDown(s)

\* S with every key of P overwritten by P's value.
Merge(S, P) ==
    [k \in DOMAIN S \cup DOMAIN P |-> IF k \in DOMAIN P THEN P[k] ELSE S[k]]

\* C4: a merge on an existing set S answers 200 with, and leaves stored,
\* exactly S with the keys of the body overwritten and every other key kept.
C4_UpdateMergesIntoExistingSet ==
    \A s \in Slots :
        (PatchServed(s) /\ ~reqs[s].before.isNil) =>
            LET u == reqs[s].req.userId
                merged == MkMap(Merge(reqs[s].before.m, reqs[s].req.body.m))
            IN /\ reqs[s].resp = writeJSON(200, PreferencesResponse(u, merged))
               /\ Stored(table, u) = merged

\* A merge overwrote one key of the existing set and kept another.
C4_Witness ==
    \E s \in Slots :
        /\ PatchServed(s)
        /\ ~reqs[s].before.isNil
        /\ reqs[s].resp.status = 200
        /\ \E k \in DOMAIN reqs[s].req.body.m \cap DOMAIN reqs[s].before.m :
              reqs[s].req.body.m[k] # reqs[s].before.m[k]
        /\ DOMAIN reqs[s].before.m \ DOMAIN reqs[s].req.body.m # {}

\* The mapping a replace request carries (JSON null is the nil map, which is
\* stored as the mapping without keys).
BodyMap(s) == reqs[s].req.body.m

ReplaceServed(s) == Served(s, "PUT", "preferences") \/ Served(s, "POST", "preferences")

\* C5: after a successful ReplaceAll(U, M), whatever U held before, GetAll(U)
\* yields exactly M, and a second ReplaceAll(U, M) at any later time changes
\* no result of GetAll or Get for U.
C5_ReplaceAllThenGetAll ==
    \A s \in Slots :
        ReplaceServed(s) =>
            LET u == reqs[s].req.userId
                M == Decode(reqs[s].req.body).prefs
            IN /\ reqs[s].resp.status = 200
               /\ DynamoStore_GetAll(table, u, FALSE)
                     = [prefs |-> MkMap(BodyMap(s)), err |-> ErrNil]
               /\ \A now2 \in clock..MaxTime :
                     LET again == DynamoStore_ReplaceAll(table, u, M, now2, FALSE) IN
                     /\ again.err = ErrNil
                     /\ DynamoStore_GetAll(again.table, u, FALSE)
                           = DynamoStore_GetAll(table, u, FALSE)
                     /\ \A k \in Keys :
                           DynamoStore_Get(again.table, u, k, FALSE)
                              = DynamoStore_Get(table, u, k, FALSE)

\* A replace with a non-empty mapping discarded a key of the prior set.
C5_Witness ==
    \E s \in Slots :
        /\ ReplaceServed(s)
        /\ reqs[s].resp.status = 200
        /\ DOMAIN BodyMap(s) # {}
        /\ DOMAIN reqs[s].before.m \ DOMAIN BodyMap(s) # {}

DeleteKeyServed(s) == Served(s, "DELETE", "preferences/{key}")

\* C6: on an existing set, DeleteKey(U, k) answers 204 and leaves stored the
\* prior set without k, every other key and value unchanged; when k was not
\* in the set nothing changes.
C6_DeleteKeyOnExistingSet ==
    \A s \in Slots :
        (DeleteKeyServed(s) /\ ~reqs[s].before.isNil) =>
            LET u == reqs[s].req.userId
                S == reqs[s].before.m
            IN /\ reqs[s].resp = WriteHeader(204)
               /\ Stored(table, u) = MkMap([k \in DOMAIN S \ {reqs[s].req.key} |-> S[k]])

\* A key of a two-key set was deleted.
C6_Witness ==
    \E s \in Slots :
        /\ DeleteKeyServed(s)
        /\ reqs[s].resp.status = 204
        /\ reqs[s].req.key \in DOMAIN reqs[s].before.m
        /\ DOMAIN reqs[s].before.m \ {reqs[s].req.key} # {}

\* C7: DeleteKey(U, k) for a user whose set is absent returns no error (the
\* route answers 204) and creates nothing: no record under U's key, GetAll
\* still absent.
C7_DeleteKeyOnAbsentSet ==
    \A s \in Slots :
        (DeleteKeyServed(s) /\ reqs[s].before.isNil) =>
            LET u == reqs[s].req.userId
            IN /\ reqs[s].resp = WriteHeader(204)
               /\ pk(u) \notin DOMAIN table
               /\ DynamoStore_GetAll(table, u, FALSE) = [prefs |-> NilMap, err |-> ErrNil]

\* A delete-key request was served for a user whose set was absent.
C7_Witness ==
    \E s \in Slots : DeleteKeyServed(s) /\ reqs[s].before.isNil

DeleteAllServed(s) == Served(s, "DELETE", "preferences")

\* C8: DeleteAll(U) answers 204 whether or not U had a set, and GetAll(U)
\* yields absent afterwards.
C8_DeleteAll ==
    \A s \in Slots :
        DeleteAllServed(s) =>
            /\ reqs[s].resp = WriteHeader(204)
            /\ DynamoStore_GetAll(table, reqs[s].req.userId, FALSE)
                  = [prefs |-> NilMap, err |-> ErrNil]

\* A delete-all removed an existing non-empty set.
C8_Witness ==
    \E s \in Slots :
        /\ DeleteAllServed(s)
        /\ reqs[s].resp.status = 204
        /\ DOMAIN reqs[s].before.m # {}

\* C9: for a user never written, GetAll yields absent and Get yields
\* found = false for every key; the full read answers 200 with an empty
\* map and the single-key read answers 404.
C9_NeverWritten ==
    \A u \in Users \ written :
        /\ DynamoStore_GetAll(table, u, FALSE) = [prefs |-> NilMap, err |-> ErrNil]
        /\ \A k \in Keys :
              DynamoStore_Get(table, u, k, FALSE)
                 = [val |-> "", found |-> FALSE, err |-> ErrNil]
        /\ \A s \in Slots :
              /\ (Served(s, "GET", "preferences") /\ reqs[s].req.userId = u) =>
                    reqs[s].resp
                       = writeJSON(200, PreferencesResponse(u, MkMap(EmptyFcn)))
              /\ (Served(s, "GET", "preferences/{key}") /\ reqs[s].req.userId = u) =>
                    reqs[s].resp = writeError(404, "preference not found")

\* A never-written user's key was read while another user has a record.
C9_Witness ==
    \E s \in Slots :
        /\ Served(s, "GET", "preferences/{key}")
        /\ reqs[s].req.userId \notin written
        /\ reqs[s].resp.status = 404
        /\ table # EmptyTable

\* C10: GetAll returns absent exactly when no record exists for the user
\* and a (possibly empty) mapping whenever one exists.
C10_AbsentIffNoRecord ==
    \A u \in Users :
        LET g == DynamoStore_GetAll(table, u, FALSE) IN
        /\ g.err = ErrNil
        /\ g.prefs.isNil <=> pk(u) \notin DOMAIN table

\* DeleteKey removed the last key of a set: the record remains and GetAll
\* yields the empty mapping.
C10_Witness ==
    \E s \in Slots :
        /\ DeleteKeyServed(s)
        /\ reqs[s].resp.status = 204
        /\ DOMAIN reqs[s].before.m = {reqs[s].req.key}
        /\ pk(reqs[s].req.userId) \in DOMAIN table
        /\ DynamoStore_GetAll(table, reqs[s].req.userId, FALSE)
              = [prefs |-> MkMap(EmptyFcn), err |-> ErrNil]

GetKeyServed(s) == Served(s, "GET", "preferences/{key}")

\* C11: Get(U, k) returns found = true exactly when U's record exists and its
\* stored set contains k, and then the value GetAll(U) holds for k; it
\* returns found = false, the empty value and no error when U is absent or k
\* is not in U's set.  The single-key read answers 200 with that value or 404.
C11_GetFoundIffStored ==
    /\ \A u \in Users, k \in Keys :
          LET g == DynamoStore_Get(table, u, k, FALSE)
              all == DynamoStore_GetAll(table, u, FALSE)
              has == /\ pk(u) \in DOMAIN table
                     /\ k \in DOMAIN table[pk(u)]["preferences"].v
          IN /\ g.err = ErrNil
             /\ g.found <=> has
             /\ g.found => g.val = all.prefs.m[k]
             /\ g.found => g.val = table[pk(u)]["preferences"].v[k].v
             /\ ~g.found => g.val = ""
    /\ \A s \in Slots :
          GetKeyServed(s) =>
              LET k == reqs[s].req.key
                  S == reqs[s].before
              IN reqs[s].resp =
                    IF k \in DOMAIN S.m
                    THEN writeJSON(200, SinglePrefResponse(k, S.m[k]))
                    ELSE writeError(404, "preference not found")

\* A key was read that an existing, non-empty set of the user does not hold.
C11_Witness ==
    \E s \in Slots :
        /\ GetKeyServed(s)
        /\ reqs[s].resp.status = 404
        /\ ~reqs[s].before.isNil
        /\ DOMAIN reqs[s].before.m # {}

\* C13: a request that reaches a handler (with the path userId the mux
\* extracted) and carries no verified identity is answered 401 without a
\* store operation; one whose verified identity differs from the path userId
\* is answered 403; a request with a verified identity is never answered 401
\* by the handler, so the two failures never share a status code.
C13_MissingIdentityVsMismatch ==
    \A s \in Slots :
        (reqs[s].pc # "idle" /\ reqs[s].req.userId # "") =>
            LET r == reqs[s].req IN
            /\ ~r.claims.ok =>
                  /\ IsDone(s)
                  /\ reqs[s].resp = writeError(401, "missing claims")
                  /\ reqs[s].calls = 0
            /\ Mismatch(r) => IsDone(s) /\ reqs[s].resp.status = 403
            /\ (r.claims.ok /\ IsDone(s)) => reqs[s].resp.status # 401
            /\ (IsDone(s) /\ reqs[s].resp.status = 401) => ~r.claims.ok
            /\ (IsDone(s) /\ reqs[s].resp.status = 403) => Mismatch(r)

\* A delete-all without a verified identity, aimed at an existing record,
\* was answered 401.
C13_Witness ==
    \E s \in Slots :
        /\ Handled(s, "DELETE", "preferences")
        /\ ~reqs[s].req.claims.ok
        /\ pk(reqs[s].req.userId) \in DOMAIN table
        /\ reqs[s].resp.status = 401

\* The request was matched to a preferences route of the mux.
Routed(r) == <<r.method, r.route>> \in Routes

\* The request's Authorization header is "Bearer <token>" with a token that
\* is signed with HS256 and the configured secret, not expired when it was
\* validated, from the configured issuer (if any) and with a subject.
VerifiedToken(r) ==
    /\ r.header.parts = 2
    /\ r.header.scheme \in {"Bearer", "bearer"}
    /\ r.header.token.wellFormed
    /\ r.header.token.alg = "HS256"
    /\ r.header.token.key = cfg.JWTSecret
    /\ r.header.token.exp.set => r.at < r.header.token.exp.v
    /\ cfg.JWTIssuer # "" =>
          r.header.token.iss.set /\ r.header.token.iss.v = cfg.JWTIssuer
    /\ r.header.token.sub.set
    /\ r.header.token.sub.v # ""

\* The body is one the handler of the request's route rejects.
RejectedBody(r) ==
    /\ r.method \in {"PUT", "POST", "PATCH"}
    /\ \/ r.body.kind \notin {"object", "null"}
       \/ r.method = "PATCH" /\ DOMAIN r.body.m = {}

\* What the checks in front of the store call answer for a routed request
\* when the bypass is off: 401, then 403, then 400; 0 when they all pass.
ChecksAnswer(r) ==
    IF ~VerifiedToken(r) THEN 401
    ELSE IF r.header.token.sub.v # r.userId THEN 403
    ELSE IF RejectedBody(r) THEN 400
    ELSE 0

C12_Step ==
    \A s \in Slots :
        LET r == reqs'[s].req IN
        /\ (reqs[s].pc # "done" /\ reqs'[s].pc = "done"
                /\ reqs'[s].resp.status \in {400, 401, 403}) =>
              /\ reqs[s].pc = "idle"
              /\ reqs'[s].calls = 0
              /\ table' = table
        /\ (reqs[s].pc = "idle" /\ reqs'[s].pc # "idle"
                /\ Routed(r) /\ ~cfg.DevBypassAuth) =>
              IF ChecksAnswer(r) = 0
              THEN reqs'[s].pc = "pending"
              ELSE /\ reqs'[s].pc = "done"
                   /\ reqs'[s].resp.status = ChecksAnswer(r)

\* C12: a request answered 400, 401 or 403 was answered before any store
\* operation and left the table as it was; the checks run in the order
\* credential verification (401), owner check (403), body validation (400),
\* and only a request that passes them all reaches the store.
C12_RejectedBeforeStore == [][C12_Step]_vars

\* A replace with a well-formed body and a valid token of another user was
\* answered 403 while the path user's record exists.
C12_Witness ==
    \E s \in Slots :
        /\ Handled(s, "PUT", "preferences")
        /\ ~cfg.DevBypassAuth
        /\ VerifiedToken(reqs[s].req)
        /\ reqs[s].req.body.kind = "object"
        /\ pk(reqs[s].req.userId) \in DOMAIN table
        /\ reqs[s].resp.status = 403

\* The token of the request's header is expired when it is validated.
Expired(r) == r.header.token.exp.set /\ ~(r.at < r.header.token.exp.v)

\* The message the middleware answers a defective credential with, "" for a
\* credential without defect.
AuthDefect(r) ==
    IF r.header.parts = 0 THEN "missing authorization header"
    ELSE IF r.header.parts = 1 \/ r.header.scheme \notin {"Bearer", "bearer"}
    THEN "invalid authorization header format"
    ELSE IF \/ ~r.header.token.wellFormed
            \/ r.header.token.key # cfg.JWTSecret
            \/ r.header.token.alg # "HS256"
            \/ Expired(r)
            \/ cfg.JWTIssuer # "" /\ ~r.header.token.iss.set
            \/ cfg.JWTIssuer # "" /\ r.header.token.iss.v # cfg.JWTIssuer
    THEN "invalid or expired token"
    ELSE IF ~r.header.token.sub.set \/ r.header.token.sub.v = ""
    THEN "token missing subject claim"
    ELSE ""

\* C14: with the bypass off, a request to a preferences route is answered
\* 401 by the middleware, without the handler being called (no claims
\* attached, no store operation), when the Authorization header is missing,
\* lacks the Bearer scheme or the token part, or carries a token that does
\* not parse, is signed with another secret or another algorithm than
\* HS256, is expired, has no or an empty subject or, with an issuer
\* configured, lacks the matching issuer claim.
C14_DefectiveCredentialRejected ==
    \A s \in Slots :
        (/\ reqs[s].pc # "idle"
         /\ ~cfg.DevBypassAuth
         /\ Routed(reqs[s].req)
         /\ AuthDefect(reqs[s].req) # "")
        => /\ IsDone(s)
           /\ reqs[s].resp = writeError(401, AuthDefect(reqs[s].req))
           /\ ~reqs[s].req.handled
           /\ reqs[s].req.claims = NoClaims
           /\ reqs[s].calls = 0

\* A token signed with the right secret but with HS384, otherwise valid and
\* for the path user, was answered 401.
C14_Witness ==
    \E s \in Slots :
        /\ IsDone(s)
        /\ ~cfg.DevBypassAuth
        /\ Routed(reqs[s].req)
        /\ reqs[s].req.header.parts = 2
        /\ reqs[s].req.header.token.wellFormed
        /\ reqs[s].req.header.token.alg = "HS384"
        /\ reqs[s].req.header.token.key = cfg.JWTSecret
        /\ ~Expired(reqs[s].req)
        /\ reqs[s].req.header.token.iss = Claim("expected-issuer")
        /\ reqs[s].req.header.token.sub = Claim(reqs[s].req.userId)
        /\ reqs[s].resp.status = 401

\* The record of user u differs between two tables.
RecordDiffers(t1, t2, u) ==
    \/ (pk(u) \in DOMAIN t1) # (pk(u) \in DOMAIN t2)
    \/ pk(u) \in DOMAIN t1 /\ pk(u) \in DOMAIN t2 /\ t1[pk(u)] # t2[pk(u)]

\* The request presented a verified token whose subject is u.
VerifiedAs(r, u) == VerifiedToken(r) /\ r.header.token.sub.v = u

C15_Step ==
    ~cfg.DevBypassAuth =>
        /\ \A s \in Slots :
              reqs'[s].pc # "idle" =>
                  LET r == reqs'[s].req IN
                  /\ r.handled =>
                        /\ VerifiedToken(r)
                        /\ r.claims = Claims(r.header.token.sub.v)
                  /\ ~r.handled => r.claims = NoClaims
                  /\ (reqs'[s].pc = "pending" \/ reqs'[s].calls > 0) =>
                        VerifiedAs(r, r.userId)
                  /\ (reqs'[s].pc = "done" /\ reqs'[s].resp.status \in {200, 204}
                        /\ Routed(r)) => VerifiedAs(r, r.userId)
        /\ \A u \in Users :
              RecordDiffers(table, table', u) =>
                  \E s \in Slots :
                      /\ reqs[s].pc = "pending"
                      /\ reqs[s].req.userId = u
                      /\ VerifiedAs(reqs[s].req, u)

\* C15: with the bypass off, the subject a handler sees is the sub claim of
\* the token verified in that request (never the path userId, the body or an
\* unverified token), so a store operation is issued for user U, a success
\* is answered on U's routes and U's record changes only for a request that
\* presented a verified token with subject U.
C15_SubjectFromVerifiedToken == [][C15_Step]_vars

\* alice replaced her set with a verified token while the service checks the
\* issuer.
C15_Witness ==
    \E s \in Slots :
        /\ Handled(s, "PUT", "preferences")
        /\ ~cfg.DevBypassAuth
        /\ cfg.JWTIssuer # ""
        /\ reqs[s].req.handled
        /\ reqs[s].req.claims = Claims("alice")
        /\ reqs[s].resp.status = 200
        /\ reqs[s].before.isNil

ExpiredCredential(r) ==
    /\ r.header.parts = 2
    /\ r.header.scheme \in {"Bearer", "bearer"}
    /\ r.header.token.wellFormed
    /\ Expired(r)

BackendUp(n) ==
    \A i \in 1..n :
        history[i].logged \notin
            {op \o ": " \o ErrUnavailable :
                op \in {"GetItem", "PutItem", "UpdateItem", "DeleteItem",
                        "UpdateItem (REMOVE)"}}

\* The responses the session expects, in order.
Expected ==
    <<writeJSON(200, PreferencesResponse("alice",
                  MkMap([k \in Keys |-> IF k = "theme" THEN "dark" ELSE "en"]))),
      writeJSON(200, PreferencesResponse("alice",
                  MkMap([k \in Keys |-> IF k = "theme" THEN "dark" ELSE "fr"]))),
      WriteHeader(204),
      writeJSON(200, PreferencesResponse("alice", MkMap([k \in {"lang"} |-> "fr"])))>>

\* C18: starting with no stored preferences for alice, the requests PUT
\* {theme: dark, lang: en}, PATCH {lang: fr}, DELETE key theme, GET all, each
\* authenticated as alice and served by an available backend, are answered
\* 200, 200, 204, 200; the PATCH response shows theme = dark and lang = fr
\* and the final GET body holds only lang = fr, whatever bob's requests do in
\* between.
C18_Scenario ==
    \A n \in 1..Len(history) :
        BackendUp(n) =>
            /\ history[n].req.method = Scenario[n].method
            /\ history[n].req.route = Scenario[n].route
            /\ history[n].resp = Expected[n]
            /\ history[n].resp.status = <<200, 200, 204, 200>>[n]

\* The session completed with an available backend while bob stored a set of
\* his own.
C18_Witness ==
    /\ Len(history) = 4
    /\ BackendUp(4)
    /\ history[4].resp.status = 200
    /\ DOMAIN Stored(table, "bob").m # {}

\* The body is a flat JSON object whose values are all strings.
FlatStringObject(body) ==
    body.kind = "object" /\ \A k \in DOMAIN body.m : body.m[k] # JSONNull

WriteRoute(r) == r.route = "preferences" /\ r.method \in {"PUT", "POST", "PATCH"}

\* C19: the replace and merge handlers answer 400, without a store
\* operation, for every body that is not a flat JSON object of strings (not
\* JSON, JSON null, an array or scalar, an object with a number, null or
\* nested-object value); the merge handler also answers 400 for an empty
\* object.
C19_MalformedBodyRejected ==
    \A s \in Slots :
        (/\ reqs[s].pc # "idle"
         /\ WriteRoute(reqs[s].req)
         /\ \/ ~FlatStringObject(reqs[s].req.body)
            \/ reqs[s].req.method = "PATCH" /\ DOMAIN reqs[s].req.body.m = {})
        => /\ IsDone(s)
           /\ reqs[s].resp.status = 400
           /\ reqs[s].calls = 0

\* The part of C19 the code keeps: a body the decoder fails on (not JSON, an
\* array, a scalar, an object with a number or a nested object as a value)
\* is answered 400 "invalid JSON body" by both handlers, and a merge with an
\* empty object or JSON null is answered 400 "empty preferences", each
\* without a store operation.
C19_DecoderErrorsRejected ==
    \A s \in Slots :
        (reqs[s].pc # "idle" /\ WriteRoute(reqs[s].req)) =>
            LET r == reqs[s].req IN
            /\ r.body.kind \notin {"object", "null"} =>
                  /\ IsDone(s)
                  /\ reqs[s].resp = writeError(400, "invalid JSON body")
                  /\ reqs[s].calls = 0
            /\ (r.method = "PATCH" /\ DOMAIN r.body.m = {}
                    /\ r.body.kind \in {"object", "null"}) =>
                  /\ IsDone(s)
                  /\ reqs[s].resp = writeError(400, "empty preferences")
                  /\ reqs[s].calls = 0

\* A replace with the body null was answered 200 and emptied a stored set.
C19_Witness ==
    \E s \in Slots :
        /\ Handled(s, "PUT", "preferences")
        /\ reqs[s].req.body.kind = "null"
        /\ reqs[s].resp.status = 200
        /\ DOMAIN reqs[s].before.m # {}
        /\ Stored(table, reqs[s].req.userId) = MkMap(EmptyFcn)

\* The message each route answers a store failure with.
FailureMessage(r) ==
    CASE <<r.method, r.route>> = <<"GET", "preferences">> -> "failed to retrieve preferences"
      [] <<r.method, r.route>> = <<"GET", "preferences/{key}">> -> "failed to retrieve preference"
      [] <<r.method, r.route>> = <<"PUT", "preferences">> -> "failed to save preferences"
      [] <<r.method, r.route>> = <<"POST", "preferences">> -> "failed to save preferences"
      [] <<r.method, r.route>> = <<"PATCH", "preferences">> -> "failed to update preferences"
      [] <<r.method, r.route>> = <<"DELETE", "preferences">> -> "failed to delete preferences"
      [] <<r.method, r.route>> = <<"DELETE", "preferences/{key}">> -> "failed to delete preference"

\* C20: when the store operation a handler invoked returned an error (an
\* outage of the backend or a rejected update expression), the handler
\* answers 500 with the message fixed for its route, the same for every
\* error value and never the error's text, which goes to the log only; a
\* 200 or 204 is answered only when the store returned no error.
C20_StoreFailureOpaque ==
    \A s \in Slots :
        IsDone(s) =>
            /\ reqs[s].logged # ErrNil =>
                  /\ reqs[s].calls = 1
                  /\ reqs[s].resp = writeError(500, FailureMessage(reqs[s].req))
                  /\ reqs[s].resp.body.error # reqs[s].logged
            /\ reqs[s].resp.status \in {200, 204} => reqs[s].logged = ErrNil
            /\ reqs[s].resp.status = 500 => reqs[s].logged # ErrNil

\* A merge whose update expression the backend rejected was answered with
\* the merge route's fixed message.
C20_Witness ==
    \E s \in Slots :
        /\ Handled(s, "PATCH", "preferences")
        /\ reqs[s].logged = "UpdateItem: " \o ErrValidation
        /\ reqs[s].resp.status = 500
        /\ table # EmptyTable

\* The response to the one backend request a store operation sent: the
\* request of the route's store operation applied to table t (its effect and
\* its output), with the item a PutItem carried read off the table t2 it
\* left.
BackendOutcome(r, now, t, t2, unavailable) ==
    LET key == pk(r.userId) IN
    CASE <<r.method, r.route>> \in {<<"GET", "preferences">>, <<"GET", "preferences/{key}">>} ->
            [table |-> t, err |-> GetItem(t, key, unavailable).err]
      [] <<r.method, r.route>> \in {<<"PUT", "preferences">>, <<"POST", "preferences">>} ->
            PutItem(t, IF key \in DOMAIN t2 THEN t2[key]
                       ELSE [a \in {"PK"} |-> AttributeValueMemberS(key)],
                    unavailable)
      [] <<r.method, r.route>> = <<"PATCH", "preferences">> ->
            UpdateItemSet(t, key,
                          [k \in DOMAIN Decode(r.body).prefs.m |->
                              AttributeValueMemberS(Decode(r.body).prefs.m[k])],
                          AttributeValueMemberS(now), unavailable)
      [] <<r.method, r.route>> = <<"DELETE", "preferences">> ->
            DeleteItem(t, key, unavailable)
      [] <<r.method, r.route>> = <<"DELETE", "preferences/{key}">> ->
            UpdateItemRemove(t, key, r.key, unavailable)

C21_Step ==
    \A s \in Slots :
        /\ reqs'[s].pc = "done" => reqs'[s].calls \in {0, 1}
        /\ (reqs[s].pc = "idle" /\ reqs'[s].pc = "done") =>
              reqs'[s].calls = 0 /\ table' = table
        /\ reqs[s].pc = "pending" =>
              \/ reqs'[s] = reqs[s] /\ table' = table
              \/ /\ reqs'[s].pc = "done"
                 /\ reqs'[s].req = reqs[s].req
                 /\ reqs'[s].calls = 1
                 /\ \E unavailable \in BOOLEAN :
                       LET r == reqs[s].req
                           out == BackendOutcome(r, reqs[s].now, table, table', unavailable)
                       IN /\ table' = out.table
                          /\ out.err # ErrNil =>
                                /\ table' = table
                                /\ reqs'[s].resp = writeError(500, FailureMessage(r))
                                /\ reqs'[s].logged # ErrNil
                          /\ out.err = ErrNil =>
                                /\ reqs'[s].logged = ErrNil
                                /\ reqs'[s].resp.status \in {200, 204, 404}
                                /\ r.method \in {"PUT", "POST"} =>
                                      Stored(table', r.userId)
                                          = MkMap(Decode(r.body).prefs.m)
                                /\ r.method = "PATCH" =>
                                      reqs'[s].resp = writeJSON(200,
                                          PreferencesResponse(r.userId,
                                              unmarshalPrefs(out.Attributes).prefs))

\* C21: a request invokes at most one store operation, none when it is
\* rejected; the store operation sends exactly one backend request (the
\* table changes as that one request changes it, and a merge answers with
\* the attributes its own UpdateItem returned, without a read of its own);
\* when that request fails the handler answers 500 at once, the table is
\* untouched and the request is not sent again.
C21_OneBackendRequest == [][C21_Step]_vars

\* A merge into an existing, non-empty set met a backend outage: it was
\* answered 500 and the set is as it was.
C21_Witness ==
    \E s \in Slots :
        /\ Handled(s, "PATCH", "preferences")
        /\ reqs[s].calls = 1
        /\ BackendDown(s)
        /\ reqs[s].resp.status = 500
        /\ DOMAIN reqs[s].before.m # {}
        /\ Stored(table, reqs[s].req.userId) = reqs[s].before

(***************************************************************************)
(* Concurrent requests of two users: one slot carries a request of alice   *)
(* and the other a request of bob, each for the sender's own preferences,  *)
(* and the backend requests are applied in any order.  Each user's record  *)
(* is absent or as a ReplaceAll left it when the requests arrive.          *)
(***************************************************************************)
\* The requests of a user for the user's own preferences that reach the store.
OwnRequests ==
    {r \in Requests :
        /\ r.userId # ""
        /\ r.claims = Claims(r.userId)
        /\ NewRouter(r, EmptyTable, 0, FALSE).calls = 1}

UserRequests(u) == {r \in OwnRequests : r.userId = u}

TableWith(a, b) ==
    LET t1 == IF a.isNil THEN EmptyTable
              ELSE DynamoStore_ReplaceAll(EmptyTable, "alice", a, 0, FALSE).table
    IN IF b.isNil THEN t1
       ELSE DynamoStore_ReplaceAll(t1, "bob", b, 0, FALSE).table

UserTables ==
    {TableWith(a, b) :
        a \in {NilMap, MkMap([k \in Keys |-> IF k = "theme" THEN "dark" ELSE "en"])},
        b \in {NilMap, MkMap([k \in {"lang"} |-> "fr"])}}

InitUsers ==
    /\ table \in UserTables
    /\ clock = 0
    /\ reqs = [s \in Slots |-> Idle]
    /\ written = {u \in Users : pk(u) \in DOMAIN table}
    /\ cfg = Config(Secret, "", FALSE, "")
    /\ history = <<>>
    /\ mock = newMockStore

NextUsers ==
    \/ Begin("r1", UserRequests("alice"))
    \/ Backend("r1")
    \/ Begin("r2", UserRequests("bob"))
    \/ Backend("r2")

SpecUsers == InitUsers /\ [][NextUsers]_vars

C22_Step ==
    /\ \A u, v \in Users \cup {""} : u # v => pk(u) # pk(v)
    /\ \A s \in Slots :
          (reqs[s].pc = "pending" /\ reqs'[s].pc = "done") =>
              \A v \in Users \ {reqs[s].req.userId} :
                  /\ ~RecordDiffers(table, table', v)
                  /\ Stored(table', v) = Stored(table, v)
                  /\ \A r \in UserRequests(v), unavailable \in BOOLEAN :
                        NewRouter(r, table', clock, unavailable).resp
                            = NewRouter(r, table, clock, unavailable).resp

\* C22: the record keys of distinct users are distinct, and in every
\* interleaving the backend request of an operation addressed to user U
\* leaves the record and the preference set of every other user V as they
\* were and changes the response of no operation addressed to V.
C22_UsersDoNotInterfere == [][C22_Step]_vars

\* alice deleted her set and bob merged into his, concurrently; bob's set
\* holds his merge and what it held before.
C22_Witness ==
    /\ Handled("r1", "DELETE", "preferences")
    /\ reqs["r1"].resp.status = 204
    /\ DOMAIN reqs["r1"].before.m # {}
    /\ Handled("r2", "PATCH", "preferences")
    /\ reqs["r2"].resp.status = 200
    /\ reqs["r2"].before = MkMap([k \in {"lang"} |-> "fr"])
    /\ Stored(table, "bob") = MkMap([k \in Keys |-> IF k = "theme" THEN "dark" ELSE "fr"])
    /\ Stored(table, "alice") = NilMap

(***************************************************************************)
(* Reads of records of any shape: the table is shared with whatever else   *)
(* writes to it, so alice's record may also lack the preferences           *)
(* attribute, hold a list there, or hold a map with a number among its     *)
(* values.  alice's requests are served one at a time.                     *)
(***************************************************************************)
AttributeValueMemberN(v) == [t |-> "N", v |-> v]

\* A list; the empty list is the list l without members.
AttributeValueMemberL(l) == [t |-> "L", v |-> l]

\* The preferences attributes a record of the table may hold.
PreferencesAttributes ==
    {AttributeValueMemberM([k \in Keys |->
        AttributeValueMemberS(IF k = "theme" THEN "dark" ELSE "en")]),
     AttributeValueMemberM([k \in Keys |->
        IF k = "theme" THEN AttributeValueMemberS("dark")
        ELSE AttributeValueMemberN("5")]),
     AttributeValueMemberM([k \in {"lang"} |-> AttributeValueMemberN("5")]),
     AttributeValueMemberL(EmptyFcn)}

\* alice's record with the given preferences attribute, and without one.
ShapeTables ==
    {[p \in {pk("alice")} |->
        [a \in {"PK", "preferences", "updatedAt", "createdAt"} |->
            CASE a = "PK" -> AttributeValueMemberS(pk("alice"))
              [] a = "preferences" -> attr
              [] OTHER -> AttributeValueMemberS(0)]] : attr \in PreferencesAttributes}
    \cup {[p \in {pk("alice")} |->
            [a \in {"PK", "updatedAt", "createdAt"} |->
                IF a = "PK" THEN AttributeValueMemberS(pk("alice"))
                ELSE AttributeValueMemberS(0)]]}

InitShapes ==
    /\ table \in ShapeTables
    /\ clock = 0
    /\ reqs = [s \in Slots |-> Idle]
    /\ written = {"alice"}
    /\ cfg = Config(Secret, "", FALSE, "")
    /\ history = <<>>
    /\ mock = newMockStore

NextShapes ==
    \/ Begin("r1", UserRequests("alice"))
    \/ Backend("r1")
    \/ Deliver("r1")

SpecShapes == InitShapes /\ [][NextShapes]_vars

\* The record of user u exists and is not a well-formed one: it has no
\* preferences attribute, or one that is no map, or a map with a value that
\* is no string.
Malformed(t, u) ==
    /\ pk(u) \in DOMAIN t
    /\ \/ "preferences" \notin DOMAIN t[pk(u)]
       \/ t[pk(u)]["preferences"].t # "M"
       \/ \E k \in DOMAIN t[pk(u)]["preferences"].v :
             t[pk(u)]["preferences"].v[k].t # "S"

ReadServed(s) == Served(s, "GET", "preferences") \/ Served(s, "GET", "preferences/{key}")

\* C23: a read of a record that is malformed (no preferences attribute, one
\* that is no map, or a map with a non-string value) fails with a data-shape
\* error, which is not the error of a backend failure; it is never answered
\* as a successful read of an absent or smaller set.
C23_MalformedReadFails ==
    \A s \in Slots :
        (ReadServed(s) /\ Malformed(table, reqs[s].req.userId)) =>
            /\ reqs[s].logged # ErrNil
            /\ ~BackendDown(s)
            /\ reqs[s].resp.status = 500

\* The part of C23 the code keeps: a read of a record whose preferences
\* attribute is no map fails with "preferences attribute is not a map",
\* which differs from every error of a failed GetItem.
C23_NotAMapFails ==
    \A s \in Slots :
        (/\ ReadServed(s)
         /\ pk(reqs[s].req.userId) \in DOMAIN table
         /\ "preferences" \in DOMAIN table[pk(reqs[s].req.userId)]
         /\ table[pk(reqs[s].req.userId)]["preferences"].t # "M")
        => /\ reqs[s].logged = "preferences attribute is not a map"
           /\ ~BackendDown(s)
           /\ reqs[s].resp.status = 500

\* The full read of a record holding a string and a number was answered 200
\* with the string alone.
C23_Witness ==
    \E s \in Slots :
        /\ Served(s, "GET", "preferences")
        /\ Malformed(table, "alice")
        /\ PathResolves(table, pk("alice"))
        /\ DOMAIN table[pk("alice")]["preferences"].v = Keys
        /\ reqs[s].resp = writeJSON(200, PreferencesResponse("alice",
                              MkMap([k \in {"theme"} |-> "dark"])))

\* The request of a done slot executed on table t, with the backend outage
\* it met if it met one.
Replay(s, t) == NewRouter(reqs[s].req, t, 0, BackendDown(s))

\* The done requests, executed one after the other in the given order from
\* the set the first of them found, give the responses that were given and
\* leave the set the table holds.
SerialOrder(order) ==
    LET u == reqs[order[1]].req.userId
        a == Replay(order[1], TableOf(u, reqs[order[1]].before))
    IN /\ a.resp = reqs[order[1]].resp
       /\ IF DOMAIN order = {1} THEN Stored(a.table, u) = Stored(table, u)
          ELSE LET b == Replay(order[2], a.table) IN
               /\ Stored(a.table, u) = reqs[order[2]].before
               /\ b.resp = reqs[order[2]].resp
               /\ Stored(b.table, u) = Stored(table, u)

\* C24: whichever requests for one user run concurrently (replace, merge,
\* delete-key, delete-all, reads) and in whichever order their backend
\* requests are applied, the responses given and the preference set stored
\* are those of the same requests executed one after the other in some
\* order.
C24_Serializable ==
    LET done == {s \in Slots : IsDone(s)} IN
    done # {} =>
        \E order \in [1..Cardinality(done) -> done] :
            /\ \A i, j \in DOMAIN order : i # j => order[i] # order[j]
            /\ SerialOrder(order)

\* Two merges that both set lang, to different values, ran concurrently on
\* an existing set and both were answered 200.
C24_Witness ==
    /\ Handled("r1", "PATCH", "preferences")
    /\ Handled("r2", "PATCH", "preferences")
    /\ reqs["r1"].resp.status = 200
    /\ reqs["r2"].resp.status = 200
    /\ "lang" \in DOMAIN reqs["r1"].req.body.m \cap DOMAIN reqs["r2"].req.body.m
    /\ reqs["r1"].req.body.m["lang"] # reqs["r2"].req.body.m["lang"]
    /\ reqs["r1"].before # reqs["r2"].before

(***************************************************************************)
(* The two implementations of Store side by side: every call is made on    *)
(* the DynamoStore (table) and on the mockStore (mock) with the same       *)
(* arguments, for alice, starting with nothing written in either; a call   *)
(* may meet a failure, which is an outage of the backend for the one and   *)
(* the error set on the mock for the other.  history holds the last call   *)
(* with what each store returned and what each read before the call.       *)
(***************************************************************************)
StoreOps == {"GetAll", "Get", "ReplaceAll", "Update", "DeleteAll", "Delete"}

\* The calls the handlers make: ReplaceAll with any decoded body (the nil
\* map for JSON null), Update with a mapping that has a key.
StoreCalls ==
    {[op |-> "GetAll", key |-> "", prefs |-> NilMap],
     [op |-> "DeleteAll", key |-> "", prefs |-> NilMap]}
    \cup {[op |-> o, key |-> k, prefs |-> NilMap] : o \in {"Get", "Delete"}, k \in Keys}
    \cup {[op |-> "ReplaceAll", key |-> "", prefs |-> p] :
            p \in {NilMap} \cup {MkMap(f) : f \in PrefMaps}}
    \cup {[op |-> "Update", key |-> "", prefs |-> MkMap(f)] :
            f \in {g \in PrefMaps : DOMAIN g # {}}}

\* What a Store method returns, over all six methods.
Returned(prefs, val, found, err) ==
    [prefs |-> prefs, val |-> val, found |-> found, err |-> err]

DynamoStore_Call(c, userID, t, now, unavailable) ==
    CASE c.op = "GetAll" ->
            LET g == DynamoStore_GetAll(t, userID, unavailable)
            IN [table |-> t, out |-> Returned(g.prefs, "", FALSE, g.err)]
      [] c.op = "Get" ->
            LET g == DynamoStore_Get(t, userID, c.key, unavailable)
            IN [table |-> t, out |-> Returned(NilMap, g.val, g.found, g.err)]
      [] c.op = "ReplaceAll" ->
            LET s == DynamoStore_ReplaceAll(t, userID, c.prefs, now, unavailable)
            IN [table |-> s.table, out |-> Returned(NilMap, "", FALSE, s.err)]
      [] c.op = "Update" ->
            LET s == DynamoStore_Update(t, userID, c.prefs, now, unavailable)
            IN [table |-> s.table, out |-> Returned(s.merged, "", FALSE, s.err)]
      [] c.op = "DeleteAll" ->
            LET s == DynamoStore_DeleteAll(t, userID, unavailable)
            IN [table |-> s.table, out |-> Returned(NilMap, "", FALSE, s.err)]
      [] c.op = "Delete" ->
            LET s == DynamoStore_Delete(t, userID, c.key, unavailable)
            IN [table |-> s.table, out |-> Returned(NilMap, "", FALSE, s.err)]

mockStore_Call(c, userID, m) ==
    CASE c.op = "GetAll" ->
            LET g == mockStore_GetAll(m, userID)
            IN [mock |-> m, out |-> Returned(g.prefs, "", FALSE, g.err)]
      [] c.op = "Get" ->
            LET g == mockStore_Get(m, userID, c.key)
            IN [mock |-> m, out |-> Returned(NilMap, g.val, g.found, g.err)]
      [] c.op = "ReplaceAll" ->
            LET s == mockStore_ReplaceAll(m, userID, c.prefs)
            IN [mock |-> s.mock, out |-> Returned(NilMap, "", FALSE, s.err)]
      [] c.op = "Update" ->
            LET s == mockStore_Update(m, userID, c.prefs)
            IN [mock |-> s.mock, out |-> Returned(s.merged, "", FALSE, s.err)]
      [] c.op = "DeleteAll" ->
            LET s == mockStore_DeleteAll(m, userID)
            IN [mock |-> s.mock, out |-> Returned(NilMap, "", FALSE, s.err)]
      [] c.op = "Delete" ->
            LET s == mockStore_Delete(m, userID, c.key)
            IN [mock |-> s.mock, out |-> Returned(NilMap, "", FALSE, s.err)]

\* A call of the method op on both stores.
StoreCall(op) ==
    \E c \in {x \in StoreCalls : x.op = op}, fail \in BOOLEAN :
        LET m0 == [mock EXCEPT !.err = IF fail THEN "store error" ELSE ErrNil]
            d == DynamoStore_Call(c, "alice", table, clock, fail)
            m == mockStore_Call(c, "alice", m0)
        IN /\ table' = d.table
           /\ mock' = m.mock
           /\ history' = <<[call |-> c, fail |-> fail,
                            dynamo |-> d.out, mock |-> m.out,
                            pre |-> [dynamo |-> DynamoStore_GetAll(table, "alice", FALSE).prefs,
                                     mock |-> mockStore_prefs(mock, "alice")]]>>
           /\ UNCHANGED <<clock, reqs, written, cfg>>

NextEquiv ==
    \/ StoreCall("GetAll")
    \/ StoreCall("Get")
    \/ StoreCall("ReplaceAll")
    \/ StoreCall("Update")
    \/ StoreCall("DeleteAll")
    \/ StoreCall("Delete")

SpecEquiv == Init /\ [][NextEquiv]_vars

\* What the caller can tell from a returned result: the values, absent or
\* present, found or not, and error or no error.
Observed(out) ==
    [prefs |-> out.prefs, val |-> out.val, found |-> out.found,
     failed |-> out.err # ErrNil]

\* C25: in every sequence of GetAll, Get, ReplaceAll, Update, DeleteAll and
\* Delete calls on one user that starts with nothing written, the mockStore
\* and the DynamoStore return the same result at every step: the same
\* values, the same absent/present distinction and the same error/no-error
\* outcome.
C25_StoresEquivalent ==
    history # <<>> => Observed(history[1].dynamo) = Observed(history[1].mock)

\* The part of C25 the code keeps: when both stores read the same set (or
\* both none) before a call, the call returns the same result on both unless
\* it is an Update or a Delete for a user without a set.
C25_AgreeUnlessAbsentWrite ==
    (/\ history # <<>>
     /\ history[1].pre.dynamo = history[1].pre.mock
     /\ ~(history[1].call.op \in {"Update", "Delete"} /\ history[1].pre.mock.isNil))
    => Observed(history[1].dynamo) = Observed(history[1].mock)

\* An Update for the never-written user failed on the DynamoStore and
\* created the set on the mockStore.
C25_Witness ==
    /\ history # <<>>
    /\ history[1].call.op = "Update"
    /\ ~history[1].fail
    /\ history[1].pre.dynamo.isNil /\ history[1].pre.mock.isNil
    /\ history[1].dynamo.err # ErrNil
    /\ history[1].mock.err = ErrNil
    /\ table = EmptyTable
    /\ mockStore_prefs(mock, "alice") = history[1].call.prefs

(***************************************************************************)
(* Concurrent writes of alice while time passes: ReplaceAll and Update     *)
(* read the clock when they start, and their backend requests are applied  *)
(* later, in any order.                                                    *)
(***************************************************************************)
ClockRequests == {r \in ConcRequests : ReadsClock(r)}

NextClock ==
    \/ \E s \in Slots : Begin(s, ClockRequests)
    \/ \E s \in Slots : Backend(s)
    \/ Tick

SpecClock == InitConc /\ [][NextClock]_vars

\* C26: every stored record carries createdAt and updatedAt, and its
\* updatedAt is not earlier than its createdAt, also after concurrent
\* ReplaceAll and Update calls for the same user that read the clock before
\* their backend requests were applied.
C26_UpdatedNotBeforeCreated ==
    \A key \in DOMAIN table :
        /\ {"createdAt", "updatedAt"} \subseteq DOMAIN table[key]
        /\ table[key]["updatedAt"].v >= table[key]["createdAt"].v

\* The part of C26 the code keeps: every stored record carries both
\* timestamps.
C26_BothTimestamps ==
    \A key \in DOMAIN table :
        {"createdAt", "updatedAt"} \subseteq DOMAIN table[key]

\* A merge that read the clock before a replace did was applied after it:
\* the record is updated before it was created.
C26_Witness ==
    \E s1, s2 \in Slots :
        /\ Handled(s1, "PUT", "preferences")
        /\ Handled(s2, "PATCH", "preferences")
        /\ reqs[s1].resp.status = 200
        /\ reqs[s2].resp.status = 200
        /\ pk("alice") \in DOMAIN table
        /\ table[pk("alice")]["updatedAt"].v < table[pk("alice")]["createdAt"].v

====
